---- MODULE Spec2Model ----
(***************************************************************************)
(* A model of package htm (src/htm.go, lines 1-380): the element tree      *)
(* builder and its renderer.                                               *)
(*                                                                         *)
(* A Go string is a sequence of one-character strings.  An Element         *)
(* interface value is nil, a text value or a pointer to a builder; the     *)
(* builders live in the heap, a sequence indexed by the pointer.           *)
(*                                                                         *)
(*   heap      the builders allocated so far                               *)
(*   hist      for each builder, the constructor that made it, the         *)
(*             arguments it was made from and those joined to it since     *)
(*   ret       the operands and the result of the last If, When or Render  *)
(*   failure   "none", or the run-time failure that ended the run: "index" *)
(*             (index out of range), "nilderef" (method call on a nil      *)
(*             interface), "overflow" (unbounded recursion)                *)
(*   nilGiven  a nil entry was in a list handed to withBody                *)
(*   tIn, tOut the string given to Text and the render of that text        *)
(*                                                                         *)
(* Spec is the package building, joining and rendering; SpecCond is If and *)
(* When; SpecText is Text on strings with percent signs.                   *)
(***************************************************************************)
EXTENDS Integers, Sequences, FiniteSets, TLC

VARIABLES heap, hist, ret, failure, nilGiven, tIn, tOut

vars == <<heap, hist, ret, failure, nilGiven, tIn, tOut>>

----------------------------------------------------------------------------
(* Bounds of the model.                                                    *)

MaxNodes == 3      \* builders allocated in one run
MaxArgs == 2       \* length of one variadic argument list
MaxEdges == 2      \* arguments passed in one run, over all calls
MaxTextLen == 4    \* length of a string given to Text

----------------------------------------------------------------------------
(* Strings.                                                                *)

AttrTag == <<"_", "_", "a", "t", "t", "r">>
FragmentTag == <<"_", "_", "f", "r", "a", "g", "m", "e", "n", "t">>

\* Tags given to Make and MakeSelfClosing: an ordinary tag and the tag the
\* library uses for its own attribute carriers.
OrdinaryTag == <<"d">>
Tags == {OrdinaryTag, AttrTag}
Keys == {<<"k">>}
Values == {<<"v">>, <<"w">>}
\* Format strings given to Text by the tree-building operations.
TextInputs == {<<"x">>}
\* Characters of the strings given to Text alone: a letter and the percent
\* sign (no flag, width or precision characters).
TextChars == {"a", "d", "%"}

RECURSIVE Flatten(_)
Flatten(ss) == IF ss = <<>> THEN <<>> ELSE Head(ss) \o Flatten(Tail(ss))

RECURSIVE SeqsUpTo(_, _)
SeqsUpTo(S, n) ==
    IF n = 0 THEN {<<>>}
    ELSE LET shorter == SeqsUpTo(S, n - 1)
         IN  shorter \cup {Append(s, x) : s \in {t \in shorter : Len(t) = n - 1}, x \in S}

----------------------------------------------------------------------------
(* fmt.Sprintf(txt) with no operands, for a format without flags, width    *)
(* or precision: a lone trailing % gives %!(NOVERB), %% gives %, and %     *)
(* followed by a verb c gives %!c(MISSING).                                *)

NoVerbString == <<"%", "!", "(", "N", "O", "V", "E", "R", "B", ")">>
MissingString == <<"(", "M", "I", "S", "S", "I", "N", "G", ")">>

RECURSIVE Sprintf(_)
Sprintf(f) ==
    IF f = <<>> THEN <<>>
    ELSE IF Head(f) # "%" THEN <<Head(f)>> \o Sprintf(Tail(f))
    ELSE IF Len(f) = 1 THEN NoVerbString
    ELSE IF f[2] = "%" THEN <<"%">> \o Sprintf(Tail(Tail(f)))
    ELSE <<"%", "!", f[2]>> \o MissingString \o Sprintf(Tail(Tail(f)))

----------------------------------------------------------------------------
(* Element values.                                                         *)

Nil == [kind |-> "nil", s |-> <<>>, id |-> 0]
Ref(i) == [kind |-> "ref", s |-> <<>>, id |-> i]

\* func Text(txt string, args ...any) Element, called with no args.
Text(txt) == [kind |-> "text", s |-> Sprintf(txt), id |-> 0]

\* type attribute struct
attribute(name, value) == [name |-> name, value |-> value]

\* func build(t string, selfClosing, fragment bool) *builder
build(t, selfClosing, fragment) ==
    [tag |-> t, selfClosing |-> selfClosing, fragment |-> fragment,
     attrs |-> <<>>, body |-> <<>>]

\* The elements a caller can hold: nil, a text, a pointer to a builder.
Elements(h) == {Nil} \cup {Text(s) : s \in TextInputs} \cup {Ref(i) : i \in 1..Len(h)}

----------------------------------------------------------------------------
(* Rendering.  A result is a string, or the failure that ends the run.     *)

Ok(s) == [fail |-> "none", s |-> s]
Fail(f) == [fail |-> f, s |-> <<>>]

\* func (t text) Render() string
textRender(t) == t.s

\* func (a *attribute) Render() string
attributeRender(a) == a.name \o <<"=", "'">> \o a.value \o <<"'">>

\* The attribute loop of builder.Render, from index i on: each attribute,
\* and one space after it unless it is the last.
RECURSIVE attrLoop(_, _)
attrLoop(attrs, i) ==
    IF i > Len(attrs) THEN <<>>
    ELSE attributeRender(attrs[i])
         \o (IF i < Len(attrs) THEN <<" ">> ELSE <<>>)
         \o attrLoop(attrs, i + 1)

\* if len(b.attrs) > 0 { sb.WriteByte(' '); ... }
renderAttrs(attrs) == IF Len(attrs) > 0 THEN <<" ">> \o attrLoop(attrs, 1) ELSE <<>>

RECURSIVE elRender(_, _, _), builderRender(_, _, _), fragmentLoop(_, _, _), bodyLoop(_, _, _)

\* el.Render() on an interface value: a nil interface has no method to
\* call; fuel counts the builders that may still be entered, and running
\* out of it means the recursion never returns (the stack overflows).
elRender(h, el, fuel) ==
    IF el.kind = "nil" THEN Fail("nilderef")
    ELSE IF el.kind = "text" THEN Ok(textRender(el))
    ELSE IF fuel = 0 THEN Fail("overflow")
    ELSE builderRender(h, h[el.id], fuel - 1)

\* The fragment loop writing the children last to first.
RECURSIVE fragmentLoopReversed(_, _, _)
fragmentLoopReversed(h, body, fuel) ==
    IF body = <<>> THEN Ok(<<>>)
    ELSE LET first == elRender(h, Head(body), fuel)
         IN  IF first.fail # "none" THEN first
             ELSE LET rest == fragmentLoopReversed(h, Tail(body), fuel)
                  IN  IF rest.fail # "none" THEN rest ELSE Ok(rest.s \o first.s)

\* for _, el := range b.body { sb.WriteString(el.Render()) }
fragmentLoop(h, body, fuel) ==
    IF body = <<>> THEN Ok(<<>>)
    ELSE LET first == elRender(h, Head(body), fuel)
         IN  IF first.fail # "none" THEN first
             ELSE LET rest == fragmentLoop(h, Tail(body), fuel)
                  IN  IF rest.fail # "none" THEN rest ELSE Ok(first.s \o rest.s)

\* for _, el := range b.body { if el == nil { continue }; ... }
bodyLoop(h, body, fuel) ==
    IF body = <<>> THEN Ok(<<>>)
    ELSE LET first == IF Head(body).kind = "nil" THEN Ok(<<>>)
                      ELSE elRender(h, Head(body), fuel)
         IN  IF first.fail # "none" THEN first
             ELSE LET rest == bodyLoop(h, Tail(body), fuel)
                  IN  IF rest.fail # "none" THEN rest ELSE Ok(first.s \o rest.s)

\* func (b *builder) Render() string
builderRender(h, b, fuel) ==
    IF Len(b.tag) = 0 THEN Ok(<<>>)
    ELSE IF b.fragment THEN fragmentLoop(h, b.body, fuel)
    ELSE LET open == <<"<">> \o b.tag \o renderAttrs(b.attrs)
         IN  IF b.selfClosing THEN Ok(open \o <<"/", ">">>)
             ELSE LET inner == bodyLoop(h, b.body, fuel)
                  IN  IF inner.fail # "none" THEN inner
                      ELSE Ok(open \o <<">">> \o inner.s \o <<"<", "/">> \o b.tag \o <<">">>)

\* A top-level el.Render() in heap h.  A chain of more than Len(h) nested
\* builders repeats one of them, so Len(h) is the depth of every render
\* that returns.
RenderIn(h, el) == elRender(h, el, Len(h))

----------------------------------------------------------------------------
(* Construction.                                                           *)

\* func (b *builder) withBody(body []Element) Element, b being h[id]; an
\* attribute carrier without attributes makes t.attrs[0] fail.  The carrier
\* is read from the heap as it is at that iteration.
RECURSIVE withBody(_, _, _)
withBody(h, id, body) ==
    IF body = <<>> THEN [h |-> h, fail |-> "none"]
    ELSE LET el == Head(body)
         IN  IF el.kind = "ref" /\ h[el.id].tag = AttrTag
             THEN IF Len(h[el.id].attrs) = 0 THEN [h |-> h, fail |-> "index"]
                  ELSE withBody([h EXCEPT ![id].attrs = Append(@, h[el.id].attrs[1])],
                                id, Tail(body))
             ELSE withBody([h EXCEPT ![id].body = Append(@, el)], id, Tail(body))

\* func (b *builder) withAttr(name, value string) Element
withAttr(b, name, value) == [b EXCEPT !.attrs = Append(@, attribute(name, value))]

\* The arguments passed so far, counted from the record of the calls.
RECURSIVE EdgesUsed(_)
EdgesUsed(hs) ==
    IF hs = <<>> THEN 0
    ELSE Len(Head(hs).made) + Len(Head(hs).joined) + EdgesUsed(Tail(hs))

\* The argument lists a call can still be given.
ArgLists ==
    LET left == MaxEdges - EdgesUsed(hist)
    IN  SeqsUpTo(Elements(heap), IF left < MaxArgs THEN left ELSE MaxArgs)

\* nilGiven records that a nil entry was in a list handed to withBody.
HasNil(body) == \E i \in 1..Len(body) : body[i] = Nil

NoRet == [op |-> "none", cond |-> FALSE, a |-> Nil, b |-> Nil, el |-> Nil, out |-> <<>>]

\* The shared shape of Make, MakeSelfClosing and Fragment: allocate b0,
\* run withBody on it, return the pointer.  A builder whose construction
\* failed is never returned, so it is not kept.
Construct(ctor, b0, body) ==
    LET id == Len(heap) + 1
        r == withBody(Append(heap, b0), id, body)
    IN  /\ failure = "none"
        /\ Len(heap) < MaxNodes
        /\ EdgesUsed(hist) + Len(body) <= MaxEdges
        /\ IF r.fail = "none"
           THEN /\ heap' = r.h
                /\ hist' = Append(hist, [ctor |-> ctor, made |-> body, joined |-> <<>>])
                /\ failure' = failure
           ELSE /\ failure' = r.fail
                /\ UNCHANGED <<heap, hist>>
        /\ nilGiven' = (nilGiven \/ HasNil(body))
        /\ ret' = NoRet
        /\ UNCHANGED <<tIn, tOut>>

\* func Make(tag string, body ...Element) Element
Make(tag, body) == Construct("Make", build(tag, FALSE, FALSE), body)

\* func MakeSelfClosing(tag string, body ...Element) Element
MakeSelfClosing(tag, body) == Construct("MakeSelfClosing", build(tag, TRUE, FALSE), body)

\* func Fragment(body ...Element) Element
Fragment(body) == Construct("Fragment", build(FragmentTag, FALSE, TRUE), body)

\* func Attr(key, value string) Element
Attr(key, value) ==
    /\ failure = "none"
    /\ Len(heap) < MaxNodes
    /\ heap' = Append(heap, withAttr(build(AttrTag, FALSE, FALSE), key, value))
    /\ hist' = Append(hist, [ctor |-> "Attr", made |-> <<>>, joined |-> <<>>])
    /\ ret' = NoRet
    /\ UNCHANGED <<failure, nilGiven, tIn, tOut>>

\* func Empty() Element
Empty == build(<<>>, FALSE, FALSE)

\* Join appending every child to the body, attributes too.
JoinBodyOnly(parent, children) ==
    /\ failure = "none"
    /\ EdgesUsed(hist) + Len(children) <= MaxEdges
    /\ IF parent.kind = "ref"
       THEN /\ heap' = [heap EXCEPT ![parent.id].body = @ \o children]
            /\ hist' = [hist EXCEPT ![parent.id].joined = @ \o children]
            /\ nilGiven' = (nilGiven \/ HasNil(children))
            /\ UNCHANGED failure
       ELSE UNCHANGED <<heap, hist, failure, nilGiven>>
    /\ ret' = NoRet
    /\ UNCHANGED <<tIn, tOut>>

\* func Join(parent Element, children ...Element) Element: a parent that
\* is no builder is returned as it is.
Join(parent, children) ==
    /\ failure = "none"
    /\ EdgesUsed(hist) + Len(children) <= MaxEdges
    /\ IF parent.kind = "ref"
       THEN LET r == withBody(heap, parent.id, children)
            IN  /\ heap' = r.h
                /\ hist' = [hist EXCEPT ![parent.id].joined = @ \o children]
                /\ failure' = r.fail
                /\ nilGiven' = (nilGiven \/ HasNil(children))
       ELSE UNCHANGED <<heap, hist, failure, nilGiven>>
    /\ ret' = NoRet
    /\ UNCHANGED <<tIn, tOut>>

----------------------------------------------------------------------------
(* Selection and rendering.                                                *)

\* If with its branches exchanged.
IfSwapped(cond, whenTrue, whenFalse) == IF cond THEN whenFalse ELSE whenTrue

\* func If(cond bool, whenTrue, whenFalse Element) Element
If(cond, whenTrue, whenFalse) == IF cond THEN whenTrue ELSE whenFalse

\* A call of If by the user of the package.
IfCall(cond, a, b) ==
    /\ failure = "none"
    /\ ret' = [NoRet EXCEPT !.op = "If", !.cond = cond, !.a = a, !.b = b,
                            !.el = If(cond, a, b)]
    /\ UNCHANGED <<heap, hist, failure, nilGiven, tIn, tOut>>

\* func When(cond bool, whenTrue Element) Element: If(cond, whenTrue, Empty()),
\* the operand Empty() being evaluated whatever cond is.
When(cond, whenTrue) ==
    LET id == Len(heap) + 1
    IN  /\ failure = "none"
        /\ Len(heap) < MaxNodes
        /\ heap' = Append(heap, Empty)
        /\ hist' = Append(hist, [ctor |-> "Empty", made |-> <<>>, joined |-> <<>>])
        /\ ret' = [NoRet EXCEPT !.op = "When", !.cond = cond, !.a = whenTrue,
                                !.b = Ref(id), !.el = If(cond, whenTrue, Ref(id))]
        /\ UNCHANGED <<failure, nilGiven, tIn, tOut>>

\* A Render that takes the children out of the builder it has written.
RenderDraining(el) ==
    LET r == RenderIn(heap, el)
    IN  /\ failure = "none"
        /\ ret' = [NoRet EXCEPT !.op = "Render", !.a = el, !.out = r.s]
        /\ failure' = r.fail
        /\ heap' = IF el.kind = "ref" THEN [heap EXCEPT ![el.id].body = <<>>] ELSE heap
        /\ UNCHANGED <<hist, nilGiven, tIn, tOut>>

\* A call el.Render() by the user of the package.
Render(el) ==
    LET r == RenderIn(heap, el)
    IN  /\ failure = "none"
        /\ ret' = [NoRet EXCEPT !.op = "Render", !.a = el, !.out = r.s]
        /\ failure' = r.fail
        /\ UNCHANGED <<heap, hist, nilGiven, tIn, tOut>>

----------------------------------------------------------------------------
(* The package in use: any construction, Join or Render, on any elements   *)
(* made so far.                                                            *)

Init ==
    /\ heap = <<>>
    /\ hist = <<>>
    /\ ret = NoRet
    /\ failure = "none"
    /\ nilGiven = FALSE
    /\ tIn = <<>>
    /\ tOut = [done |-> FALSE, s |-> <<>>]

Next ==
    \/ \E tag \in Tags, body \in ArgLists : Make(tag, body)
    \/ \E body \in ArgLists : MakeSelfClosing(OrdinaryTag, body)
    \/ \E body \in ArgLists : Fragment(body)
    \/ \E key \in Keys, value \in Values : Attr(key, value)
    \/ \E parent \in Elements(heap), children \in ArgLists : Join(parent, children)
    \/ \E el \in Elements(heap) \ {Nil} : Render(el)

Spec == Init /\ [][Next]_vars

----------------------------------------------------------------------------
(* If and When in use, on elements made by Make and by When itself.  They  *)
(* allocate nothing but the Empty() of When, so leaving them out of Next   *)
(* loses no heap that Spec should reach.                                   *)

NextCond ==
    \/ \E body \in ArgLists : Make(OrdinaryTag, body)
    \/ \E cond \in BOOLEAN, a \in Elements(heap), b \in Elements(heap) : IfCall(cond, a, b)
    \/ \E cond \in BOOLEAN, a \in Elements(heap) : When(cond, a)

SpecCond == Init /\ [][NextCond]_vars

----------------------------------------------------------------------------
(* Text alone: a string is given to Text with no operands, and the text    *)
(* is rendered.                                                            *)

InitText ==
    /\ heap = <<>>
    /\ hist = <<>>
    /\ ret = NoRet
    /\ failure = "none"
    /\ nilGiven = FALSE
    /\ tIn \in SeqsUpTo(TextChars, MaxTextLen)
    /\ tOut = [done |-> FALSE, s |-> <<>>]

RenderText ==
    /\ ~tOut.done
    /\ tOut' = [done |-> TRUE, s |-> textRender(Text(tIn))]
    /\ UNCHANGED <<heap, hist, ret, failure, nilGiven, tIn>>

NextText == RenderText

SpecText == InitText /\ [][NextText]_vars

----------------------------------------------------------------------------
(* What the claims speak of.                                               *)

DQ == "\""

\* No withBody call was cut short: every builder holds all it was given.
Built == failure # "index"

\* An attribute argument: a pointer to a builder with the attribute tag,
\* which is what Attr and the named attribute constructors return.
IsAttrNode(h, el) == el.kind = "ref" /\ h[el.id].tag = AttrTag

\* The (key, value) pairs of the attribute arguments, in argument order.
RECURSIVE ArgAttrs(_, _)
ArgAttrs(h, args) ==
    IF args = <<>> THEN <<>>
    ELSE (IF IsAttrNode(h, Head(args)) THEN <<h[Head(args).id].attrs[1]>> ELSE <<>>)
         \o ArgAttrs(h, Tail(args))

\* The other arguments, in argument order.
RECURSIVE ArgChildren(_, _)
ArgChildren(h, args) ==
    IF args = <<>> THEN <<>>
    ELSE (IF IsAttrNode(h, Head(args)) THEN <<>> ELSE <<Head(args)>>)
         \o ArgChildren(h, Tail(args))

NotNil(el) == el # Nil
NonNil(els) == SelectSeq(els, NotNil)

\* Every one of els has a render.
RendersOk(h, els) == \A i \in 1..Len(els) : RenderIn(h, els[i]).fail = "none"

\* Render(c1) .. Render(cm)
RECURSIVE ConcatRenders(_, _)
ConcatRenders(h, els) ==
    IF els = <<>> THEN <<>> ELSE RenderIn(h, Head(els)).s \o ConcatRenders(h, Tail(els))

\* For each attribute, one space and key="value".
RECURSIVE QuotedAttrs(_)
QuotedAttrs(attrs) ==
    IF attrs = <<>> THEN <<>>
    ELSE <<" ">> \o Head(attrs).name \o <<"=", DQ>> \o Head(attrs).value \o <<DQ>>
         \o QuotedAttrs(Tail(attrs))

Nodes == 1..Len(heap)

----------------------------------------------------------------------------
(* C1: an element built by Make with a non-empty tag renders as <tag, then *)
(* for each attribute argument in argument order one space and key="value" *)
(* in double quotes, then >, then the renders of the other arguments in    *)
(* argument order, then </tag>.                                            *)
C1_MakeRenders ==
    Built =>
        \A id \in Nodes :
            LET b == heap[id]
                kids == NonNil(ArgChildren(heap, hist[id].made))
            IN  (/\ hist[id].ctor = "Make"
                 /\ hist[id].joined = <<>>
                 /\ b.tag # <<>>
                 /\ RendersOk(heap, kids))
                => RenderIn(heap, Ref(id)) =
                       Ok(<<"<">> \o b.tag \o QuotedAttrs(ArgAttrs(heap, hist[id].made))
                          \o <<">">> \o ConcatRenders(heap, kids)
                          \o <<"<", "/">> \o b.tag \o <<">">>)

(* C2: a fragment renders as the concatenation of the renders of its       *)
(* non-attribute arguments in argument order, with no wrapping tag; an     *)
(* attribute argument adds nothing.                                        *)
C2_FragmentRenders ==
    Built =>
        \A id \in Nodes :
            LET kids == ArgChildren(heap, hist[id].made)
            IN  (/\ hist[id].ctor = "Fragment"
                 /\ hist[id].joined = <<>>
                 /\ RendersOk(heap, kids))
                => RenderIn(heap, Ref(id)) = Ok(ConcatRenders(heap, kids))

\* A fragment was given an attribute and a child, and its render is not empty.
C2_Witness ==
    /\ failure = "none"
    /\ \E id \in Nodes :
        /\ hist[id].ctor = "Fragment"
        /\ hist[id].joined = <<>>
        /\ ArgAttrs(heap, hist[id].made) # <<>>
        /\ ArgChildren(heap, hist[id].made) # <<>>
        /\ RenderIn(heap, Ref(id)).fail = "none"
        /\ RenderIn(heap, Ref(id)).s # <<>>

(* C3: an element built by MakeSelfClosing renders as <tag, then each      *)
(* attribute in argument order after exactly one space, as key="value",    *)
(* then />, whatever other children it was given, at construction or by    *)
(* Join.                                                                   *)
C3_SelfClosingRenders ==
    Built =>
        \A id \in Nodes :
            (hist[id].ctor = "MakeSelfClosing" /\ heap[id].tag # <<>>)
            => RenderIn(heap, Ref(id)) =
                   Ok(<<"<">> \o heap[id].tag
                      \o QuotedAttrs(ArgAttrs(heap, hist[id].made \o hist[id].joined))
                      \o <<"/", ">">>)

\* A fresh builder of the kind and tag of b, built from args in heap h.
Fresh(h, b, args) ==
    withBody(Append(h, build(b.tag, b.selfClosing, b.fragment)), Len(h) + 1, args)

(* C4: after any Join calls on a node built by Make, MakeSelfClosing or    *)
(* Fragment, the node renders as a fresh node of the same kind and tag     *)
(* built from the construction arguments followed by the joined ones.      *)
C4_JoinAsConstruct ==
    Built =>
        \A id \in Nodes :
            hist[id].ctor \in {"Make", "MakeSelfClosing", "Fragment"}
            => LET f == Fresh(heap, heap[id], hist[id].made \o hist[id].joined)
               IN  /\ f.fail = "none"
                   /\ RenderIn(heap, Ref(id)) = RenderIn(f.h, Ref(Len(heap) + 1))

\* A node built with a child was joined with an attribute, and renders.
C4_Witness ==
    /\ failure = "none"
    /\ \E id \in Nodes :
        /\ hist[id].ctor = "Make"
        /\ ArgChildren(heap, hist[id].made) # <<>>
        /\ ArgAttrs(heap, hist[id].joined) # <<>>
        /\ RenderIn(heap, Ref(id)).fail = "none"
        /\ RenderIn(heap, Ref(id)).s # <<>>

(* C5: an attribute node built by Attr and rendered on its own renders as  *)
(* key="value", with no tag around it.                                     *)
C5_AttrStandalone ==
    (/\ failure = "none"
     /\ ret.op = "Render"
     /\ ret.a.kind = "ref"
     /\ hist[ret.a.id].ctor = "Attr"
     /\ hist[ret.a.id].joined = <<>>)
    => LET a == heap[ret.a.id].attrs[1]
       IN  ret.out = a.name \o <<"=", DQ>> \o a.value \o <<DQ>>

(* C6: when no nil entry is given, no call of Make, MakeSelfClosing,       *)
(* Fragment, Join or Render fails, whatever the tags.                      *)
C6_NoFailure == nilGiven \/ failure = "none"

(* C7: Text(s) with no operands renders as s, character for character.     *)
C7_TextVerbatim == tOut.done => tOut.s = tIn

(* C8: a Render step leaves every builder as it was, and a Render of the   *)
(* element rendered by the step before gives the same string.              *)
C8_RenderPure ==
    [][ret'.op = "Render" =>
         /\ heap' = heap
         /\ hist' = hist
         /\ (ret.op = "Render" /\ ret.a = ret'.a /\ failure' = "none")
            => ret'.out = ret.out]_vars

\* A builder holding another builder was rendered.
C8_Witness ==
    /\ failure = "none"
    /\ ret.op = "Render"
    /\ ret.a.kind = "ref"
    /\ \E i \in 1..Len(heap[ret.a.id].body) : heap[ret.a.id].body[i].kind = "ref"
    /\ ret.out # <<>>

(* C9: If returns its second operand when cond is true and its third when  *)
(* cond is false; When(cond, a) renders as a when cond is true and as the  *)
(* empty string when cond is false.                                        *)
C9_IfWhen ==
    /\ ret.op = "If" => ret.el = (IF ret.cond THEN ret.a ELSE ret.b)
    /\ ret.op = "When" =>
           RenderIn(heap, ret.el) = (IF ret.cond THEN RenderIn(heap, ret.a) ELSE Ok(<<>>))

\* When was called with a false condition on an element whose render is
\* not empty.
C9_Witness ==
    /\ ret.op = "When"
    /\ ~ret.cond
    /\ RenderIn(heap, ret.a).fail = "none"
    /\ RenderIn(heap, ret.a).s # <<>>

\* The heap with the nil entries taken out of every body.
StripNil(h) == [i \in 1..Len(h) |-> [h[i] EXCEPT !.body = NonNil(@)]]

(* C10: a nil entry in the children of any builder adds nothing to its     *)
(* render and does not make the render fail.                               *)
C10_NilSkipped ==
    Built => \A id \in Nodes : RenderIn(heap, Ref(id)) = RenderIn(StripNil(heap), Ref(id))

\* The builders in the body list of builder i.
BodyRefs(h, i) ==
    {h[i].body[j].id : j \in {k \in 1..Len(h[i].body) : h[i].body[k].kind = "ref"}}

\* The builders reached from those of S by following body lists, one to n
\* steps away.
RECURSIVE ReachedIn(_, _, _)
ReachedIn(h, S, n) ==
    IF n = 0 THEN {}
    ELSE LET next == UNION {BodyRefs(h, i) : i \in S}
         IN  next \cup ReachedIn(h, next, n - 1)

(* C11: after any constructor and Join calls no builder is reached from    *)
(* itself by following body lists, and the render of every builder         *)
(* terminates.                                                             *)
C11_Acyclic ==
    \A id \in Nodes :
        /\ id \notin ReachedIn(heap, {id}, Len(heap))
        /\ RenderIn(heap, Ref(id)).fail # "overflow"

====
